---- MODULE Spec2Model ----
(***************************************************************************)
(* Model of CollectFBComments: the identifier resolver (extract_post_id),  *)
(* the record normalizer (CommentCollector._comment_from_json), the CSV    *)
(* exporter (save_comments_to_csv), and a whole run of the CLI entry point *)
(* (main) or of the form handler (app.collect_comments) around the         *)
(* pagination loop of CommentCollector.collect.                            *)
(*                                                                         *)
(* Text is a sequence of tokens: one token per character that matters to   *)
(* the parsing ("/", "?", "&", "=", "_", "#", a decimal digit) and one     *)
(* token per word whose letters are never looked at one by one ("posts",   *)
(* "story_fbid", "id", "a", ...).                                          *)
(***************************************************************************)
EXTENDS Integers, Sequences, FiniteSets, TLC

VARIABLES
    post_url,     \* resolver: the URL text handed to extract_post_id
    extracted,    \* resolver: outcome of extract_post_id
    raw,          \* normalizer: the raw JSON record
    normalized,   \* normalizer: outcome of _comment_from_json
    to_export,    \* exporter: the comment sequence handed to save_comments_to_csv
    sink,         \* exporter: the rows written to the sink
    entry,        \* run: "cli" (main) or "form" (app.collect_comments)
    args,         \* run: the inputs of the run
    pc,           \* run: position in main / the form handler
    url,          \* run: collect's loop variable url
    params,       \* run: collect's local params (TRUE: the dict, FALSE: None)
    comments,     \* run: collect's local list comments
    requests,     \* run: the URLs requested so far, in order
    responses,    \* run: the payloads received so far, in order
    error,        \* run: the exception that left collect ("" when none)
    outcome       \* run: what the caller sees at the end

resolveVars == <<post_url, extracted>>
normVars == <<raw, normalized>>
csvVars == <<to_export, sink>>
runVars == <<entry, args, pc, url, params, comments, requests, responses, error, outcome>>
vars == <<resolveVars, normVars, csvVars, runVars>>

----------------------------------------------------------------------------
(* Python values. Every value has the same shape so that values compare.   *)

PyMissing == [t |-> "missing", s |-> "", n |-> 0]     \* the key is not in the dict
PyNone == [t |-> "None", s |-> "", n |-> 0]
PyStr(x) == [t |-> "str", s |-> x, n |-> 0]
PyInt(k) == [t |-> "int", s |-> "", n |-> k]

(* A JSON sub-object (from, parent): missing key, null, or a dict with the *)
(* optional keys id and name.                                              *)
ObjMissing == [t |-> "missing", id |-> PyMissing, name |-> PyMissing]
ObjNull == [t |-> "None", id |-> PyMissing, name |-> PyMissing]
ObjDict(i, nm) == [t |-> "dict", id |-> i, name |-> nm]
EmptyDict == ObjDict(PyMissing, PyMissing)

(* dict.get(key, default) on a raw record field.                           *)
Get(v, default) == IF v.t = "missing" THEN default ELSE v

(* bool(obj) for None and for a dict: an empty dict is falsy.              *)
ObjTruthy(o) == o.t = "dict" /\ (o.id.t # "missing" \/ o.name.t # "missing")

(* `obj or {}`                                                             *)
OrEmptyDict(o) == IF ObjTruthy(o) THEN o ELSE EmptyDict

(* obj.get(key) on the value of raw.get("from") / raw.get("parent", {}).   *)
ObjGetId(o) == Get(o.id, PyNone)
ObjGetName(o) == Get(o.name, PyNone)

NoComment ==
    [comment_id |-> PyNone, created_time |-> PyNone, author_id |-> PyNone,
     author_name |-> PyNone, message |-> PyNone, parent_id |-> PyNone,
     like_count |-> PyNone]

(* raw.get("from"): None when the key is missing.                          *)
RawGetFrom(r) == IF r.from.t = "missing" THEN ObjNull ELSE r.from

(* raw.get("parent", {}): {} only when the key is missing; a null stays    *)
(* None.                                                                   *)
RawGetParent(r) == IF r.parent.t = "missing" THEN EmptyDict ELSE r.parent

(* CommentCollector._comment_from_json. None.get raises AttributeError.    *)
CommentFromJson(r) ==
    IF RawGetParent(r).t # "dict"
    THEN [ok |-> FALSE, err |-> "AttributeError", c |-> NoComment]
    ELSE [ok |-> TRUE, err |-> "",
          c |-> [comment_id |-> Get(r.id, PyStr("")),
                 created_time |-> Get(r.created_time, PyStr("")),
                 author_id |-> ObjGetId(OrEmptyDict(RawGetFrom(r))),
                 author_name |-> ObjGetName(OrEmptyDict(RawGetFrom(r))),
                 message |-> Get(r.message, PyStr("")),
                 parent_id |-> ObjGetId(RawGetParent(r)),
                 like_count |-> Get(r.like_count, PyNone)]]

(* The raw records the normalizer is applied to.                           *)
ScalarChoices(x) == {PyMissing, PyNone, PyStr(x)}
FromChoices ==
    {ObjMissing, ObjNull, EmptyDict, ObjDict(PyStr("u1"), PyMissing),
     ObjDict(PyMissing, PyStr("Ann")), ObjDict(PyStr("u1"), PyStr("Ann"))}
ParentChoices == {ObjMissing, ObjNull, EmptyDict, ObjDict(PyStr("10_1"), PyMissing)}
LikeChoices == {PyMissing, PyNone, PyInt(0), PyInt(12)}
RawRecords ==
    [id : ScalarChoices("10_20"), created_time : {PyMissing, PyStr("2024-01-01T00:00:00+0000")},
     from : FromChoices, message : {PyMissing, PyStr("hi")},
     parent : ParentChoices, like_count : LikeChoices]

NotNormalized == [done |-> FALSE, ok |-> FALSE, err |-> "", c |-> NoComment]

----------------------------------------------------------------------------
(* Identifier resolver: extract_post_id.                                   *)

Digits == {"0", "1", "2", "3", "4", "5", "6", "7", "8", "9"}
IsDigit(tok) == tok \in Digits

(* The scheme and network location, which urlparse splits off the front.   *)
SchemeHost == "https://www.facebook.com"

(* Index of the first occurrence of tok in seq at or after i, or           *)
(* Len(seq) + 1.                                                           *)
RECURSIVE Find(_, _, _)
Find(seq, tok, i) ==
    IF i > Len(seq) THEN Len(seq) + 1
    ELSE IF seq[i] = tok THEN i
    ELSE Find(seq, tok, i + 1)

(* str.split(sep): the pieces between the separators, empty ones kept.     *)
RECURSIVE Split(_, _)
Split(seq, sep) ==
    LET k == Find(seq, sep, 1)
    IN  IF k > Len(seq) THEN <<seq>>
        ELSE <<SubSeq(seq, 1, k - 1)>> \o Split(SubSeq(seq, k + 1, Len(seq)), sep)

(* urlparse(post_url): the fragment is cut at the first "#", then the      *)
(* query at the first "?"; the path is what is left after scheme and       *)
(* netloc.                                                                 *)
UrlParse(text) ==
    LET rest == IF Len(text) > 0 /\ text[1] = SchemeHost
                THEN SubSeq(text, 2, Len(text)) ELSE text
        h == Find(rest, "#", 1)
        noFrag == SubSeq(rest, 1, h - 1)
        q == Find(noFrag, "?", 1)
    IN  [path |-> SubSeq(noFrag, 1, q - 1),
         query |-> SubSeq(noFrag, q + 1, Len(noFrag)),
         fragment |-> SubSeq(rest, h + 1, Len(rest))]

(* parse_qs(query) as the list of (name, value) pairs it keeps, in order:  *)
(* fields are separated by "&", name and value by the first "=", and a     *)
(* field with a blank value is dropped (keep_blank_values is False).       *)
RECURSIVE KeepNonBlank(_)
KeepNonBlank(fields) ==
    IF fields = <<>> THEN <<>>
    ELSE LET f == Head(fields)
             e == Find(f, "=", 1)
             name == SubSeq(f, 1, e - 1)
             value == SubSeq(f, e + 1, Len(f))
         IN  (IF value = <<>> THEN <<>> ELSE <<[name |-> name, value |-> value]>>)
                 \o KeepNonBlank(Tail(fields))
ParseQs(query) == KeepNonBlank(Split(query, "&"))

(* `key in query` and query[key][0] on the dict parse_qs returns.          *)
InQuery(pairs, key) == \E i \in 1..Len(pairs) : pairs[i].name = <<key>>
RECURSIVE FirstValue(_, _)
FirstValue(pairs, key) ==
    IF Head(pairs).name = <<key>> THEN Head(pairs).value
    ELSE FirstValue(Tail(pairs), key)

(* Last index of the longest run of tokens satisfying the test that starts *)
(* at i (i - 1 when the run is empty).                                     *)
RECURSIVE DigitRunEnd(_, _)
DigitRunEnd(text, i) ==
    IF i <= Len(text) /\ IsDigit(text[i]) THEN DigitRunEnd(text, i + 1) ELSE i - 1
RECURSIVE UnderscoreRunEnd(_, _)
UnderscoreRunEnd(text, i) ==
    IF i <= Len(text) /\ text[i] = "_" THEN UnderscoreRunEnd(text, i + 1) ELSE i - 1

(* The pattern with a single underscore, \d+_\d+, in place of \d+_+\d+.     *)
MatchAtSingleUnderscore(text, i) ==
    LET a == DigitRunEnd(text, i)
        c == DigitRunEnd(text, a + 2)
    IN  IF a >= i /\ a + 1 <= Len(text) /\ text[a + 1] = "_" /\ c > a + 1 THEN c ELSE 0

(* POST_ID_PATTERN matched at position i: \d+ _+ \d+, each part greedy.    *)
(* The end of the match, or 0 when there is none.                          *)
MatchAt(text, i) ==
    LET a == DigitRunEnd(text, i)
        b == UnderscoreRunEnd(text, a + 1)
        c == DigitRunEnd(text, b + 1)
    IN  IF a >= i /\ b > a /\ c > b THEN c ELSE 0

(* POST_ID_PATTERN.search(post_url): the match at the leftmost position    *)
(* that has one; match.group(0) is the matched text.                       *)
RECURSIVE PatternSearch(_, _)
PatternSearch(text, i) ==
    IF i > Len(text) THEN [found |-> FALSE, group0 |-> <<>>]
    ELSE IF MatchAt(text, i) > 0
         THEN [found |-> TRUE, group0 |-> SubSeq(text, i, MatchAt(text, i))]
         ELSE PatternSearch(text, i + 1)

(* [segment for segment in parsed.path.split("/") if segment]              *)
PathParts(path) == SelectSeq(Split(path, "/"), LAMBDA seg : seg # <<>>)

(* str.isdigit() on a non-empty string of the modelled tokens.             *)
IsDigitString(seg) == seg # <<>> /\ \A i \in 1..Len(seg) : IsDigit(seg[i])

(* list.index("posts"): the first index holding the segment "posts"        *)
(* (1-based here).                                                         *)
IndexOfPosts(parts) == Find(parts, <<"posts">>, 1)

Resolved(id) == [ok |-> TRUE, id |-> id]
ValueError == [ok |-> FALSE, id |-> <<>>]

(* extract_post_id with the /posts/ rule tried before the pattern search.   *)
ExtractPostIdPathFirst(text) ==
    LET parsed == UrlParse(text)
        query == ParseQs(parsed.query)
        match == PatternSearch(text, 1)
        parts == PathParts(parsed.path)
        idx == IndexOfPosts(parts)
    IN  IF InQuery(query, "story_fbid") /\ InQuery(query, "id")
        THEN Resolved(FirstValue(query, "id") \o <<"_">> \o FirstValue(query, "story_fbid"))
        ELSE IF idx <= Len(parts) /\ idx + 1 <= Len(parts)
        THEN Resolved(parts[1] \o <<"_">> \o parts[idx + 1])
        ELSE IF match.found
        THEN Resolved(match.group0)
        ELSE IF Len(parts) = 1 /\ IsDigitString(parts[1])
        THEN Resolved(parts[1])
        ELSE ValueError

(* extract_post_id with the two halves of the /posts/ identifier swapped.  *)
ExtractPostIdSwapped(text) ==
    LET parsed == UrlParse(text)
        query == ParseQs(parsed.query)
        match == PatternSearch(text, 1)
        parts == PathParts(parsed.path)
        idx == IndexOfPosts(parts)
    IN  IF InQuery(query, "story_fbid") /\ InQuery(query, "id")
        THEN Resolved(FirstValue(query, "id") \o <<"_">> \o FirstValue(query, "story_fbid"))
        ELSE IF match.found
        THEN Resolved(match.group0)
        ELSE IF idx <= Len(parts) /\ idx + 1 <= Len(parts)
        THEN Resolved(parts[idx + 1] \o <<"_">> \o parts[1])
        ELSE IF Len(parts) = 1 /\ IsDigitString(parts[1])
        THEN Resolved(parts[1])
        ELSE ValueError

ExtractPostId(text) ==
    LET parsed == UrlParse(text)
        query == ParseQs(parsed.query)
        match == PatternSearch(text, 1)
        parts == PathParts(parsed.path)
        idx == IndexOfPosts(parts)
    IN  IF InQuery(query, "story_fbid") /\ InQuery(query, "id")
        THEN Resolved(FirstValue(query, "id") \o <<"_">> \o FirstValue(query, "story_fbid"))
        ELSE IF match.found
        THEN Resolved(match.group0)
        ELSE IF idx <= Len(parts) /\ idx + 1 <= Len(parts)
        THEN Resolved(parts[1] \o <<"_">> \o parts[idx + 1])
        ELSE IF Len(parts) = 1 /\ IsDigitString(parts[1])
        THEN Resolved(parts[1])
        ELSE ValueError

(* The URLs the resolver is applied to: a path of segments, a query of     *)
(* name=value fields and an optional fragment, written out as text.        *)
MaxSegments == 3
MaxFields == 2

SeqsUpTo(S, n) == UNION {[1..k -> S] : k \in 0..n}

SegmentChoices ==
    {<<>>, <<"7">>, <<"a">>, <<"posts">>, <<"1", "2", "_", "_", "3">>}
FieldChoices ==
    {[name |-> <<"story_fbid">>, value |-> <<"5">>],
     [name |-> <<"story_fbid">>, value |-> <<>>],
     [name |-> <<"id">>, value |-> <<"6">>],
     [name |-> <<"id">>, value |-> <<"4">>]}
FragmentChoices == {<<>>, <<"#", "8", "_", "9">>}

RECURSIVE RenderPath(_)
RenderPath(segs) ==
    IF segs = <<>> THEN <<>> ELSE <<"/">> \o Head(segs) \o RenderPath(Tail(segs))
RECURSIVE RenderFields(_)
RenderFields(fields) ==
    IF fields = <<>> THEN <<>>
    ELSE Head(fields).name \o <<"=">> \o Head(fields).value
             \o (IF Tail(fields) = <<>> THEN <<>> ELSE <<"&">> \o RenderFields(Tail(fields)))
RenderUrl(segs, fields, frag) ==
    <<SchemeHost>> \o RenderPath(segs)
        \o (IF fields = <<>> THEN <<>> ELSE <<"?">> \o RenderFields(fields)) \o frag

UrlInputs ==
    {RenderUrl(segs, fields, frag) :
        segs \in SeqsUpTo(SegmentChoices, MaxSegments),
        fields \in SeqsUpTo(FieldChoices, MaxFields),
        frag \in FragmentChoices}

NotExtracted == [done |-> FALSE, ok |-> FALSE, id |-> <<>>]

----------------------------------------------------------------------------
(* CSV exporter: save_comments_to_csv. A row is the sequence of its cells. *)

fieldnames ==
    <<"comment_id", "created_time", "author_id", "author_name", "message",
      "parent_id", "like_count">>

(* str(value) for every value, None included.                              *)
CsvCellStrOfNone(v) ==
    IF v.t = "None" THEN "None" ELSE IF v.t = "int" THEN ToString(v.n) ELSE v.s

(* What the csv writer puts in a cell: "" for None, str(value) otherwise.  *)
CsvCell(v) ==
    IF v.t = "None" THEN "" ELSE IF v.t = "int" THEN ToString(v.n) ELSE v.s

(* DictWriter.writerow: the dict's values in fieldnames order.             *)
WriteRow(comment) == [i \in 1..Len(fieldnames) |-> CsvCell(comment[fieldnames[i]])]

(* for comment in comments: writer.writerow({...})                         *)
RECURSIVE WriteRows(_)
WriteRows(cs) ==
    IF cs = <<>> THEN <<>> ELSE <<WriteRow(Head(cs))>> \o WriteRows(Tail(cs))

(* writer.writeheader() followed by the rows.                              *)
SaveCommentsToCsv(cs) == <<fieldnames>> \o WriteRows(cs)

NotWritten == [written |-> FALSE, rows |-> <<>>]
Written(rows) == [written |-> TRUE, rows |-> rows]

MaxComments == 3

ExampleComment ==
    [comment_id |-> PyStr("10_20"), created_time |-> PyStr("2024-01-01T00:00:00+0000"),
     author_id |-> PyNone, author_name |-> PyNone, message |-> PyStr("hi"),
     parent_id |-> PyNone, like_count |-> PyNone]
CommentChoices ==
    {ExampleComment,
     [ExampleComment EXCEPT !.comment_id = PyStr("10_21"), !.author_id = PyStr("u1"),
                            !.author_name = PyStr("Ann"), !.parent_id = PyStr("10_20"),
                            !.like_count = PyInt(12)],
     [ExampleComment EXCEPT !.comment_id = PyStr("10_22"), !.message = PyStr(""),
                            !.like_count = PyInt(0)],
     [ExampleComment EXCEPT !.comment_id = PyStr("10_23"), !.author_id = PyStr("u2"),
                            !.message = PyStr("a,b")]}

----------------------------------------------------------------------------
(* Comment collector: CommentCollector.collect and _fetch_page.            *)

(* A str-or-None URL value: collect's url, and the JSON value of           *)
(* paging.next ("missing" when the key is absent).                         *)
UrlNone == [t |-> "None", text |-> <<>>]
UrlStr(text) == [t |-> "str", text |-> text]
UrlMissing == [t |-> "missing", text |-> <<>>]

(* bool(url): None and the empty string are falsy.                         *)
Truthy(u) == u.t = "str" /\ u.text # <<>>

api_version == "v19.0"

(* f"https://graph.facebook.com/{self.api_version}/{post_id}/comments"     *)
BaseUrl(post_id) ==
    <<"https://graph.facebook.com/", api_version, "/">> \o post_id \o <<"/comments">>

(* urlencode(params) of the initial parameter set.                         *)
EncodedParams(token) ==
    <<"access_token", "=", token, "&", "summary", "=", "true", "&",
      "filter", "=", "stream", "&", "limit", "=", "100">>

(* _fetch_page: the URL the request is made to. The parameters are added   *)
(* only when params is truthy, after "&" if the URL already has a "?".     *)
FetchUrl(u, withParams, token) ==
    IF withParams
    THEN u \o <<(IF \E i \in 1..Len(u) : u[i] = "?" THEN "&" ELSE "?")>> \o EncodedParams(token)
    ELSE u

(* params left as it was after the fetch.                                  *)
ParamsKept == params

(* `params = None` after the first fetch.                                  *)
ParamsAfterFetch == FALSE

(* `while url:` with a limit of two pages.                                 *)
WhileUrlTwoPages(u) == Truthy(u) /\ Len(responses) < 1

(* `while url:`                                                            *)
WhileUrl(u) == Truthy(u)

(* What a fetch can raise: urlopen raises HTTPError on a non-success       *)
(* status and URLError on a transport failure, json.loads raises           *)
(* JSONDecodeError on a body that is not JSON.                             *)
FetchErrors == {"HTTPError", "URLError", "JSONDecodeError"}

(* payload.get("data", [])                                                 *)
PayloadData(p) == IF p.data.has THEN p.data.items ELSE <<>>

(* payload.get("paging", {}).get("next")                                   *)
PagingNext(p) ==
    IF p.paging.has /\ p.paging.next.t # "missing" THEN p.paging.next ELSE UrlNone

(* for item in payload.get("data", []): comments.append(...). The list     *)
(* keeps what was appended before an item failed to normalize.             *)
RECURSIVE AppendAll(_, _)
AppendAll(cs, items) ==
    IF items = <<>> THEN [ok |-> TRUE, err |-> "", comments |-> cs]
    ELSE LET r == CommentFromJson(Head(items))
         IN  IF r.ok THEN AppendAll(Append(cs, r.c), Tail(items))
             ELSE [ok |-> FALSE, err |-> r.err, comments |-> cs]

(* The payloads the API answers with.                                      *)
MaxPages == 3

RawFull ==
    [id |-> PyStr("10_21"), created_time |-> PyStr("2024-01-01T00:00:00+0000"),
     from |-> ObjDict(PyStr("u1"), PyStr("Ann")), message |-> PyStr("hello"),
     parent |-> ObjDict(PyStr("10_20"), PyMissing), like_count |-> PyInt(12)]
RawMinimal ==
    [id |-> PyStr("10_20"), created_time |-> PyStr("2024-01-01T00:00:00+0000"),
     from |-> ObjMissing, message |-> PyStr("hi"), parent |-> ObjMissing,
     like_count |-> PyMissing]
RawNullParent == [RawMinimal EXCEPT !.id = PyStr("10_22"), !.parent = ObjNull]

DataChoices ==
    {[has |-> FALSE, items |-> <<>>], [has |-> TRUE, items |-> <<>>],
     [has |-> TRUE, items |-> <<RawMinimal>>],
     [has |-> TRUE, items |-> <<RawFull, RawMinimal>>],
     [has |-> TRUE, items |-> <<RawNullParent>>]}
CursorA == <<"https://graph.facebook.com/v19.0/10_1/comments", "?", "after", "=", "A">>
CursorB == <<"https://graph.facebook.com/v19.0/10_1/comments", "?", "after", "=", "B">>
PagingChoices ==
    {[has |-> FALSE, next |-> UrlMissing], [has |-> TRUE, next |-> UrlMissing],
     [has |-> TRUE, next |-> UrlStr(<<>>)], [has |-> TRUE, next |-> UrlStr(CursorA)],
     [has |-> TRUE, next |-> UrlStr(CursorB)]}
Payloads == [data : DataChoices, paging : PagingChoices]

----------------------------------------------------------------------------
(* A run: main (CLI) or app.collect_comments (form handler).               *)

ResolvableUrl == <<SchemeHost, "/", "a", "/", "posts", "/", "7">>
UnresolvableUrl == <<SchemeHost, "/", "a", "/", "photos">>
RunArgs ==
    [post_url : {<<>>, ResolvableUrl, UnresolvableUrl},
     access_token : {"", "EAAB"},
     post_id : {<<>>, <<"1", "0", "_", "1">>}]

(* `args.post_id or extract_post_id(args.post_url)`                        *)
PostIdOf(a) == IF a.post_id # <<>> THEN Resolved(a.post_id) ELSE ExtractPostId(a.post_url)

NoOutcome ==
    [kind |-> "running", exit_code |-> -1, stderr |-> "", csv |-> NotWritten,
     page_error |-> "", preview |-> <<>>]

(* The form handler's check of its required fields.                        *)
FormFieldsMissing(a) == a.post_url = <<>> \/ a.access_token = ""

(* print_sample / the form's comments[:10]                                 *)
SampleSize == 10
FirstN(cs, n) == SubSeq(cs, 1, IF Len(cs) < n THEN Len(cs) ELSE n)

(* `except HTTPError` in main, `except Exception` in the form handler.     *)
Caught(e, ent) == IF ent = "cli" THEN e = "HTTPError" ELSE TRUE

(* The start of the run up to the call of collect.                         *)
Start ==
    /\ pc = "start"
    /\ IF entry = "form" /\ FormFieldsMissing(args)
       THEN /\ pc' = "done"
            /\ outcome' = [NoOutcome EXCEPT !.kind = "returned",
                                            !.page_error = "fields required"]
            /\ UNCHANGED url
       ELSE IF ~PostIdOf(args).ok
       THEN /\ pc' = "done"
            /\ outcome' = IF entry = "cli"
                          THEN [NoOutcome EXCEPT !.kind = "returned", !.exit_code = 1,
                                                 !.stderr = "Unable to derive post id from URL"]
                          ELSE [NoOutcome EXCEPT !.kind = "returned",
                                                 !.page_error = "Unable to derive post id from URL"]
            /\ UNCHANGED url
       ELSE /\ pc' = "collect"
            /\ url' = UrlStr(BaseUrl(PostIdOf(args).id))
            /\ UNCHANGED outcome
    /\ UNCHANGED <<entry, args, params, comments, requests, responses, error>>
    /\ UNCHANGED <<resolveVars, normVars, csvVars>>

(* One turn of collect's loop in which the fetch raises.                   *)
FetchFails ==
    /\ pc = "collect"
    /\ Len(requests) < MaxPages
    /\ \E e \in FetchErrors :
        /\ requests' = Append(requests, FetchUrl(url.text, params, args.access_token))
        /\ error' = e
        /\ pc' = "raised"
    /\ UNCHANGED <<entry, args, url, params, comments, responses, outcome>>
    /\ UNCHANGED <<resolveVars, normVars, csvVars>>

(* One turn of collect's loop in which the fetch returns a payload.        *)
LoopTurn ==
    /\ pc = "collect"
    /\ Len(requests) < MaxPages
    /\ \E payload \in Payloads :
        LET r == AppendAll(comments, PayloadData(payload))
        IN  /\ requests' = Append(requests, FetchUrl(url.text, params, args.access_token))
            /\ responses' = Append(responses, payload)
            /\ params' = ParamsAfterFetch
            /\ comments' = r.comments
            /\ IF r.ok
               THEN /\ url' = PagingNext(payload)
                    /\ pc' = IF WhileUrl(PagingNext(payload)) THEN "collect" ELSE "returned"
                    /\ UNCHANGED error
               ELSE /\ error' = r.err
                    /\ pc' = "raised"
                    /\ UNCHANGED url
    /\ UNCHANGED <<entry, args, outcome>>
    /\ UNCHANGED <<resolveVars, normVars, csvVars>>

(* collect raised: main returns 1 for an HTTPError and lets anything else  *)
(* propagate; the form handler renders the message.                        *)
HandleErrorPartialExport ==
    /\ pc = "raised"
    /\ pc' = "done"
    /\ outcome' = [NoOutcome EXCEPT !.kind = "returned", !.exit_code = 1,
                                    !.csv = Written(SaveCommentsToCsv(comments))]
    /\ UNCHANGED <<entry, args, url, params, comments, requests, responses, error>>
    /\ UNCHANGED <<resolveVars, normVars, csvVars>>
HandleError ==
    /\ pc = "raised"
    /\ pc' = "done"
    /\ outcome' =
        IF ~Caught(error, entry)
        THEN [NoOutcome EXCEPT !.kind = "uncaught"]
        ELSE IF entry = "cli"
        THEN [NoOutcome EXCEPT !.kind = "returned", !.exit_code = 1,
                               !.stderr = "Failed to fetch comments"]
        ELSE [NoOutcome EXCEPT !.kind = "returned",
                               !.page_error = "Impossible de recuperer les commentaires"]
    /\ UNCHANGED <<entry, args, url, params, comments, requests, responses, error>>
    /\ UNCHANGED <<resolveVars, normVars, csvVars>>

(* collect returned: the comments are exported and main returns 0 (the     *)
(* form handler renders the preview and the CSV text).                     *)
Export ==
    /\ pc = "returned"
    /\ pc' = "done"
    /\ outcome' =
        [NoOutcome EXCEPT !.kind = "returned",
                          !.exit_code = IF entry = "cli" THEN 0 ELSE -1,
                          !.csv = Written(SaveCommentsToCsv(comments)),
                          !.preview = FirstN(comments, SampleSize)]
    /\ UNCHANGED <<entry, args, url, params, comments, requests, responses, error>>
    /\ UNCHANGED <<resolveVars, normVars, csvVars>>

----------------------------------------------------------------------------
(* The functions applied on their own.                                     *)

Extract ==
    /\ ~extracted.done
    /\ extracted' = [done |-> TRUE, ok |-> ExtractPostId(post_url).ok,
                     id |-> ExtractPostId(post_url).id]
    /\ UNCHANGED <<post_url, normVars, csvVars, runVars>>

Normalize ==
    /\ ~normalized.done
    /\ normalized' = [done |-> TRUE, ok |-> CommentFromJson(raw).ok,
                      err |-> CommentFromJson(raw).err, c |-> CommentFromJson(raw).c]
    /\ UNCHANGED <<raw, resolveVars, csvVars, runVars>>

Save ==
    /\ ~sink.written
    /\ sink' = Written(SaveCommentsToCsv(to_export))
    /\ UNCHANGED <<to_export, resolveVars, normVars, runVars>>

----------------------------------------------------------------------------
(* Specifications.                                                         *)

IdleResolve == post_url = <<>> /\ extracted = NotExtracted
IdleNormalize == raw = RawMinimal /\ normalized = NotNormalized
IdleCsv == to_export = <<>> /\ sink = NotWritten
IdleRun ==
    /\ entry = "cli" /\ args = [post_url |-> <<>>, access_token |-> "", post_id |-> <<>>]
    /\ pc = "idle" /\ url = UrlNone /\ params = TRUE /\ comments = <<>>
    /\ requests = <<>> /\ responses = <<>> /\ error = "" /\ outcome = NoOutcome

(* A run of the CLI or of the form handler.                                *)
Init ==
    /\ entry \in {"cli", "form"}
    /\ args \in RunArgs
    /\ pc = "start" /\ url = UrlNone /\ params = TRUE /\ comments = <<>>
    /\ requests = <<>> /\ responses = <<>> /\ error = "" /\ outcome = NoOutcome
    /\ IdleResolve /\ IdleNormalize /\ IdleCsv
Next == Start \/ FetchFails \/ LoopTurn \/ HandleError \/ Export
Spec == Init /\ [][Next]_vars

(* extract_post_id on every URL of UrlInputs.                              *)
InitResolve ==
    /\ post_url \in UrlInputs /\ extracted = NotExtracted
    /\ IdleNormalize /\ IdleCsv /\ IdleRun
SpecResolve == InitResolve /\ [][Extract]_vars

(* _comment_from_json on every record of RawRecords.                       *)
InitNormalize ==
    /\ raw \in RawRecords /\ normalized = NotNormalized
    /\ IdleResolve /\ IdleCsv /\ IdleRun
SpecNormalize == InitNormalize /\ [][Normalize]_vars

(* save_comments_to_csv on every sequence of up to MaxComments comments.   *)
InitCsv ==
    /\ to_export \in SeqsUpTo(CommentChoices, MaxComments) /\ sink = NotWritten
    /\ IdleResolve /\ IdleNormalize /\ IdleRun
SpecCsv == InitCsv /\ [][Save]_vars

----------------------------------------------------------------------------
(* Properties of extract_post_id (checked under SpecResolve).              *)

(* The four rules, stated on the URL.                                      *)
QueryOf(text) == ParseQs(UrlParse(text).query)
PartsOf(text) == PathParts(UrlParse(text).path)

Rule1Applies(text) == InQuery(QueryOf(text), "story_fbid") /\ InQuery(QueryOf(text), "id")
Rule1Id(text) ==
    FirstValue(QueryOf(text), "id") \o <<"_">> \o FirstValue(QueryOf(text), "story_fbid")

(* a digit at a, a digit at b, and nothing but one or more underscores     *)
(* between them                                                            *)
PatternBridge(text, a, b) ==
    /\ a + 1 < b
    /\ IsDigit(text[a]) /\ IsDigit(text[b])
    /\ \A m \in (a + 1)..(b - 1) : text[m] = "_"
Rule2Applies(text) ==
    \E a \in 1..Len(text) : \E b \in 1..Len(text) : PatternBridge(text, a, b)

(* id has the shape digits, underscores, digits                            *)
HasPatternShape(id) ==
    \E p \in 1..Len(id) : \E q \in 1..Len(id) :
        /\ p + 1 < q
        /\ \A m \in 1..Len(id) :
            IF m <= p \/ m >= q THEN IsDigit(id[m]) ELSE id[m] = "_"

(* id is the occurrence of the pattern in text that starts first, taken at *)
(* its full length                                                         *)
IsLeftmostLongestMatch(text, id) ==
    /\ HasPatternShape(id)
    /\ \E i \in 1..Len(text) :
        LET c == i + Len(id) - 1
        IN  /\ c <= Len(text)
            /\ id = SubSeq(text, i, c)
            /\ (i = 1 \/ ~IsDigit(text[i - 1]))
            /\ (c = Len(text) \/ ~IsDigit(text[c + 1]))
            /\ ~\E a \in 1..(i - 1) : \E b \in 1..Len(text) : PatternBridge(text, a, b)

(* id is some occurrence of the pattern in text                            *)
IsPatternSubstring(text, id) ==
    /\ HasPatternShape(id)
    /\ \E i \in 1..Len(text) :
        i + Len(id) - 1 <= Len(text) /\ id = SubSeq(text, i, i + Len(id) - 1)

Rule3Applies(text) ==
    \E i \in 1..Len(PartsOf(text)) :
        PartsOf(text)[i] = <<"posts">> /\ i < Len(PartsOf(text))
Rule3Id(text) ==
    LET parts == PartsOf(text)
        first == CHOOSE i \in 1..Len(parts) :
                    /\ parts[i] = <<"posts">>
                    /\ \A j \in 1..(i - 1) : parts[j] # <<"posts">>
    IN  parts[1] \o <<"_">> \o parts[first + 1]

Rule4Applies(text) ==
    /\ Len(PartsOf(text)) = 1
    /\ PartsOf(text)[1] # <<>>
    /\ \A m \in 1..Len(PartsOf(text)[1]) : PartsOf(text)[1][m] \in Digits

(* C4: extract_post_id answers with the lowest-numbered of the four rules  *)
(* that applies (1: story_fbid and id in the query, 2: digits, underscores,*)
(* digits anywhere in the URL, 3: a path segment "posts" followed by       *)
(* another, 4: a path of one all-digit segment), and fails, returning no   *)
(* identifier, exactly when none applies.                                  *)
C4_FirstMatchWins ==
    extracted.done =>
        IF Rule1Applies(post_url)
        THEN extracted.ok /\ extracted.id = Rule1Id(post_url)
        ELSE IF Rule2Applies(post_url)
        THEN extracted.ok /\ IsLeftmostLongestMatch(post_url, extracted.id)
        ELSE IF Rule3Applies(post_url)
        THEN extracted.ok /\ extracted.id = Rule3Id(post_url)
        ELSE IF Rule4Applies(post_url)
        THEN extracted.ok /\ extracted.id = PartsOf(post_url)[1]
        ELSE ~extracted.ok /\ extracted.id = <<>>

(* C4 witness: rules 2, 3 apply together (rule 1 does not) and the answer  *)
(* is rule 2's, not rule 3's.                                              *)
C4_Witness ==
    /\ extracted.done /\ extracted.ok
    /\ ~Rule1Applies(post_url) /\ Rule2Applies(post_url) /\ Rule3Applies(post_url)
    /\ extracted.id # Rule3Id(post_url)

(* C5 as stated: for any URL containing a digits_digits substring the      *)
(* answer is exactly such a substring of the URL.                          *)
C5_Original ==
    (extracted.done /\ Rule2Applies(post_url)) =>
        extracted.ok /\ IsPatternSubstring(post_url, extracted.id)

(* C5 amended: for any URL that contains a digits, underscores, digits     *)
(* substring and whose query does not hold both story_fbid and id, the     *)
(* answer is the first such substring at its full length, whatever the     *)
(* path rules would give.                                                  *)
C5_PatternUnlessQueryRule ==
    (extracted.done /\ Rule2Applies(post_url) /\ ~Rule1Applies(post_url)) =>
        extracted.ok /\ IsLeftmostLongestMatch(post_url, extracted.id)

(* C5 witness: a URL holding the pattern twice, with a run of two          *)
(* underscores in the first, on which the /posts/ rule would also match.   *)
C5_Witness ==
    /\ extracted.done /\ ~Rule1Applies(post_url) /\ Rule3Applies(post_url)
    /\ extracted.id = <<"1", "2", "_", "_", "3">>
    /\ UrlParse(post_url).fragment # <<>>

(* the path of the URL is /X/posts/Y                                       *)
PathIs(text, X, Y) == UrlParse(text).path = <<"/">> \o X \o <<"/", "posts", "/">> \o Y
NonEmptySegments == SegmentChoices \ {<<>>}

(* C6 as stated: for every URL whose path is /X/posts/Y the answer is X_Y. *)
C6_Original ==
    extracted.done =>
        \A X \in NonEmptySegments : \A Y \in NonEmptySegments :
            PathIs(post_url, X, Y) => extracted.ok /\ extracted.id = X \o <<"_">> \o Y

(* C6 amended: for every URL whose path is /X/posts/Y, with X other than   *)
(* "posts", whose query does not hold both story_fbid and id and whose     *)
(* text holds no digits, underscores, digits substring, the answer is X_Y. *)
C6_PostsPath ==
    extracted.done =>
        \A X \in NonEmptySegments : \A Y \in NonEmptySegments :
            (/\ PathIs(post_url, X, Y)
             /\ X # <<"posts">>
             /\ ~Rule1Applies(post_url)
             /\ ~Rule2Applies(post_url))
                => extracted.ok /\ extracted.id = X \o <<"_">> \o Y

(* C6 witness: /a/posts/7 with a query that is not rule 1's.               *)
C6_Witness ==
    /\ extracted.done
    /\ PathIs(post_url, <<"a">>, <<"7">>)
    /\ UrlParse(post_url).query # <<>>
    /\ ~Rule1Applies(post_url) /\ ~Rule2Applies(post_url)
    /\ extracted.id = <<"a", "_", "7">>

----------------------------------------------------------------------------
(* Properties of _comment_from_json (checked under SpecNormalize).         *)

(* C8: normalizing any raw record never fails; author_id and author_name   *)
(* are None when the record has no from object (missing or null),          *)
(* parent_id is None when it has no parent object (missing or null),       *)
(* like_count is None when missing, comment_id, created_time and message   *)
(* are "" when missing, and what is present is passed through.             *)
C8_NormalizeNeverFails ==
    normalized.done =>
        /\ normalized.ok
        /\ (raw.from.t \in {"missing", "None"} =>
                normalized.c.author_id = PyNone /\ normalized.c.author_name = PyNone)
        /\ (raw.parent.t \in {"missing", "None"} => normalized.c.parent_id = PyNone)
        /\ (raw.like_count.t = "missing" => normalized.c.like_count = PyNone)
        /\ (raw.id.t = "missing" => normalized.c.comment_id = PyStr(""))
        /\ (raw.created_time.t = "missing" => normalized.c.created_time = PyStr(""))
        /\ (raw.message.t = "missing" => normalized.c.message = PyStr(""))
        /\ (raw.id.t # "missing" => normalized.c.comment_id = raw.id)
        /\ (raw.created_time.t # "missing" => normalized.c.created_time = raw.created_time)
        /\ (raw.message.t # "missing" => normalized.c.message = raw.message)
        /\ (raw.like_count.t # "missing" => normalized.c.like_count = raw.like_count)
        /\ (raw.from.t = "dict" /\ raw.from.id.t # "missing" =>
                normalized.c.author_id = raw.from.id)
        /\ (raw.from.t = "dict" /\ raw.from.name.t # "missing" =>
                normalized.c.author_name = raw.from.name)
        /\ (raw.parent.t = "dict" /\ raw.parent.id.t # "missing" =>
                normalized.c.parent_id = raw.parent.id)

(* What does hold: the same, for the records whose parent is not null.     *)
NormalizeUnlessNullParent ==
    (normalized.done /\ raw.parent.t # "None") => C8_NormalizeNeverFails
NormalizeFailsOnNullParent ==
    (normalized.done /\ raw.parent.t = "None") =>
        ~normalized.ok /\ normalized.err = "AttributeError"

----------------------------------------------------------------------------
(* Properties of save_comments_to_csv (checked under SpecCsv).             *)

(* the cell of an optional field                                           *)
OptionalCell(v, cell) == IF v.t = "None" THEN cell = "" ELSE cell # ""

(* C7: the output is one header row with the seven column names in order   *)
(* followed by one row per comment in input order, an absent optional      *)
(* field being an empty cell; for no comments, the header row alone.       *)
C7_HeaderThenOneRowPerComment ==
    sink.written =>
        /\ Len(sink.rows) = 1 + Len(to_export)
        /\ sink.rows[1] = <<"comment_id", "created_time", "author_id", "author_name",
                            "message", "parent_id", "like_count">>
        /\ \A i \in 1..Len(to_export) :
            LET c == to_export[i]
                row == sink.rows[i + 1]
            IN  /\ Len(row) = 7
                /\ row[1] = c.comment_id.s
                /\ row[2] = c.created_time.s
                /\ row[5] = c.message.s
                /\ OptionalCell(c.author_id, row[3]) /\ (c.author_id.t = "str" => row[3] = c.author_id.s)
                /\ OptionalCell(c.author_name, row[4]) /\ (c.author_name.t = "str" => row[4] = c.author_name.s)
                /\ OptionalCell(c.parent_id, row[6]) /\ (c.parent_id.t = "str" => row[6] = c.parent_id.s)
                /\ OptionalCell(c.like_count, row[7])
                /\ (c.like_count = PyInt(0) => row[7] = "0")
                /\ (c.like_count = PyInt(12) => row[7] = "12")
                /\ (c = ExampleComment =>
                        row = <<"10_20", "2024-01-01T00:00:00+0000", "", "", "hi", "", "">>)
        /\ (to_export = <<>> => sink.rows = <<sink.rows[1]>>)

(* C7 witness: three comments exported, the example among them after a     *)
(* comment with every field set.                                           *)
C7_Witness ==
    /\ sink.written /\ Len(to_export) = 3
    /\ to_export[1].like_count = PyInt(12)
    /\ to_export[2] = ExampleComment
    /\ Len(sink.rows) = 4

----------------------------------------------------------------------------
(* Properties of a run (checked under Spec).                               *)

Last(seq) == seq[Len(seq)]

(* the page carries no cursor: no paging object, no next key, or an empty  *)
(* next                                                                    *)
Cursorless(p) == ~p.paging.has \/ p.paging.next.t # "str" \/ p.paging.next.text = <<>>

(* the page omits paging.next                                              *)
OmitsNext(p) == ~p.paging.has \/ p.paging.next.t = "missing"

(* the data records of the pages, in page order                            *)
RECURSIVE AllRecords(_)
AllRecords(pages) ==
    IF pages = <<>> THEN <<>>
    ELSE (IF Head(pages).data.has THEN Head(pages).data.items ELSE <<>>)
             \o AllRecords(Tail(pages))

(* every fetch so far succeeded and the last page received omits           *)
(* paging.next: the chain of pages has been delivered whole                *)
ChainDelivered ==
    /\ responses # <<>>
    /\ Len(requests) = Len(responses)
    /\ \A i \in 1..(Len(responses) - 1) : ~Cursorless(responses[i])
    /\ OmitsNext(Last(responses))

(* C1: for every chain of N >= 1 pages (each page's paging.next leading to *)
(* the next, the last omitting it) collect returns the normalized records  *)
(* of all pages, as many as there are records, in page order and in each   *)
(* page's order.                                                           *)
C1_CollectReturnsEveryRecord ==
    ChainDelivered =>
        /\ pc \in {"returned", "done"} /\ error = ""
        /\ Len(comments) = Len(AllRecords(responses))
        /\ \A k \in 1..Len(comments) :
            /\ CommentFromJson(AllRecords(responses)[k]).ok
            /\ comments[k] = CommentFromJson(AllRecords(responses)[k]).c

(* What does hold: whenever collect returns, its result is the normalized  *)
(* records of all pages in order; it fails to return only on a record      *)
(* whose parent is null.                                                   *)
CollectResultWhenItReturns ==
    (ChainDelivered /\ error = "") =>
        /\ pc \in {"returned", "done"}
        /\ Len(comments) = Len(AllRecords(responses))
        /\ \A k \in 1..Len(comments) :
            comments[k] = CommentFromJson(AllRecords(responses)[k]).c
CollectFailsOnlyOnNullParent ==
    (pc \in {"raised", "done"} /\ error # "" /\ error \notin FetchErrors) =>
        /\ error = "AttributeError"
        /\ \E k \in 1..Len(AllRecords(responses)) :
            AllRecords(responses)[k].parent.t = "None"

(* C2: once a page fetch has failed, after any number of pages fetched,    *)
(* the run produces no CSV: the exporter is not called, nothing is         *)
(* written, and the comments of the earlier pages are not shown.           *)
C2_NoCsvAfterFetchFailure ==
    error \in FetchErrors =>
        /\ ~outcome.csv.written /\ outcome.csv.rows = <<>>
        /\ outcome.preview = <<>>
        /\ outcome.exit_code # 0

(* C2 witness: the third fetch of a CLI run fails after two pages that     *)
(* brought comments, and the run has ended.                                *)
C2_Witness ==
    /\ pc = "done" /\ entry = "cli" /\ error \in FetchErrors
    /\ Len(responses) = 2 /\ Len(comments) >= 2

(* C3: every CLI run ends with main returning an exit code: 0 when the     *)
(* comments were collected and the CSV written, 1 with a message on        *)
(* standard error when the resolution or a page fetch failed, whatever the *)
(* kind of the fetch failure.                                              *)
C3_ExitCodes ==
    (entry = "cli" /\ pc = "done" /\ (error = "" \/ error \in FetchErrors)) =>
        /\ outcome.kind = "returned"
        /\ IF PostIdOf(args).ok /\ error = ""
           THEN outcome.exit_code = 0 /\ outcome.csv.written
           ELSE outcome.exit_code = 1 /\ outcome.stderr # ""

(* What does hold: main returns 1 for a failed resolution and for an       *)
(* HTTPError, 0 after the export, and returns nothing (the exception       *)
(* leaves main) for a URLError or a JSONDecodeError.                       *)
ExitCodesOfMain ==
    (entry = "cli" /\ pc = "done" /\ (error = "" \/ error \in FetchErrors)) =>
        IF error \in {"URLError", "JSONDecodeError"}
        THEN outcome.kind = "uncaught" /\ outcome.exit_code = -1 /\ outcome.stderr = ""
        ELSE /\ outcome.kind = "returned"
             /\ IF PostIdOf(args).ok /\ error = ""
                THEN outcome.exit_code = 0 /\ outcome.csv.written
                ELSE outcome.exit_code = 1 /\ outcome.stderr # ""

(* C9: the initial parameter set goes with the first request only; every   *)
(* later request is made to the paging.next of the response just before    *)
(* it, as it is; and a request is made only once the previous one has been *)
(* answered.                                                               *)
C9_ParamsOnFirstRequestOnly ==
    /\ Len(requests) - Len(responses) \in {0, 1}
    /\ (requests # <<>> =>
            requests[1] =
                <<"https://graph.facebook.com/", "v19.0", "/">> \o PostIdOf(args).id
                    \o <<"/comments", "?", "access_token", "=", args.access_token, "&",
                         "summary", "=", "true", "&", "filter", "=", "stream", "&",
                         "limit", "=", "100">>)
    /\ \A i \in 2..Len(requests) :
        /\ responses[i - 1].paging.has
        /\ responses[i - 1].paging.next.t = "str"
        /\ requests[i] = responses[i - 1].paging.next.text

(* C9 witness: three requests, the second and third to different cursors.  *)
C9_Witness ==
    /\ Len(requests) = 3 /\ Len(responses) = 3
    /\ requests[2] = CursorB /\ requests[3] = CursorA

StillRunningAfterMaxPages ==
    /\ pc = "collect" /\ Len(responses) = MaxPages /\ ~Cursorless(Last(responses))

====
